---- MODULE Spec2Model ----
(***************************************************************************)
(* Model of the in-memory sliding-window rate limiter (rateLimiter.js):    *)
(* the two bucket maps, the periodic cleanup, getClientIP, checkIPLimit,   *)
(* checkSessionLimit and applyRateLimit; of the cache-header transforms;   *)
(* of the SQL predicates has_board_role and can_read_board; and of the     *)
(* create-roadmap-update edge function; and of the ProtectedRoute          *)
(* component of the web client.                                            *)
(*                                                                         *)
(* Conventions.  A JavaScript string is a sequence of one-character        *)
(* strings, so that split(',') and trim() are computed and not assumed.    *)
(* A Map is a function whose DOMAIN is the set of keys present.  A Headers *)
(* object is a function from the header names present to their values.     *)
(* A JavaScript object is a record; a property that is undefined (or null) *)
(* is a field that is absent.  Time is in milliseconds, as Date.now().     *)
(***************************************************************************)
EXTENDS Integers, Sequences, FiniteSets, TLC

VARIABLES
  now,           \* the value Date.now() returns
  config,        \* the config preset the endpoint passes to applyRateLimit
  ipStore,       \* const ipStore = new Map()
  sessionStore,  \* const sessionStore = new Map()
  nextSweep,     \* the time at which the setInterval callback is next due
  last,          \* what the last handler or callback did (observation)
  ipLog,         \* history: per IP key, the checks made on it, in order
  sessionLog,    \* history: per session key, the checks made on it, in order
  nReq,          \* number of applyRateLimit calls so far (bounds the model)
  boards,        \* table boards: a set of rows
  board_roles,   \* table board_roles: a set of rows
  auth,          \* the caller of the SQL session: what auth.uid() and auth.role() return
  RoadmapUpdate, \* the hosted entity store RoadmapUpdate: the records created, in order
  checking,      \* ProtectedRoute: const [checking, setChecking] = useState(true)
  authenticated, \* ProtectedRoute: const [authenticated, setAuthenticated] = useState(false)
  checkAuth,     \* ProtectedRoute: the statement checkAuth is at
  isAuth,        \* ProtectedRoute: how base44.auth.isAuthenticated() settled
  redirects,     \* the calls of base44.auth.redirectToLogin, in order
  href           \* window.location.href

\* the state outside the rate limiter
dbvars == <<boards, board_roles, auth, RoadmapUpdate>>

\* the state of the web client
uivars == <<checking, authenticated, checkAuth, isAuth, redirects, href>>

vars == <<now, config, ipStore, sessionStore, nextSweep, last, ipLog, sessionLog, nReq,
          boards, board_roles, auth, RoadmapUpdate,
          checking, authenticated, checkAuth, isAuth, redirects, href>>

----------------------------------------------------------------------------
(* Program constants *)

maxAge == 3600000

SweepIntervalMs == 600000

BurstWindowMs == 10000

MsPerSecond == 1000

PUBLIC_API == [windowMs |-> 60000, maxRequests |-> 60, burst |-> 10]

\* (mutant) the analytics tier lets two requests through in its window
ANALYTICS_TWO == [windowMs |-> 300000, maxRequests |-> 2, burst |-> 1]

ANALYTICS == [windowMs |-> 300000, maxRequests |-> 1, burst |-> 1]

SIGNUP == [windowMs |-> 60000, maxRequests |-> 3, burst |-> 1]

RATE_LIMITS == {PUBLIC_API, ANALYTICS, SIGNUP}

unknown == <<"u", "n", "k", "n", "o", "w", "n">>

null == [null |-> TRUE]

----------------------------------------------------------------------------
(* String helpers: String.prototype.split(',')[0], trim(), toString()      *)

Whitespace == {" ", "\t"}

RECURSIVE FirstSegment(_)
FirstSegment(s) ==
  IF s = <<>> \/ Head(s) = "," THEN <<>>
  ELSE <<Head(s)>> \o FirstSegment(Tail(s))

RECURSIVE TrimStart(_)
TrimStart(s) ==
  IF s # <<>> /\ Head(s) \in Whitespace THEN TrimStart(Tail(s)) ELSE s

RECURSIVE TrimEnd(_)
TrimEnd(s) ==
  IF s # <<>> /\ s[Len(s)] \in Whitespace
  THEN TrimEnd(SubSeq(s, 1, Len(s) - 1)) ELSE s

Trim(s) == TrimEnd(TrimStart(s))

Digit(d) == <<"0", "1", "2", "3", "4", "5", "6", "7", "8", "9">>[d + 1]

RECURSIVE toString(_)
toString(n) ==
  IF n < 0 THEN <<"-">> \o toString(-n)
  ELSE IF n < 10 THEN <<Digit(n)>>
  ELSE toString(n \div 10) \o <<Digit(n % 10)>>

----------------------------------------------------------------------------
(* Map and Headers helpers *)

MapSet(store, key, value) ==
  [k \in DOMAIN store \cup {key} |-> IF k = key THEN value ELSE store[k]]

MapDelete(store, keys) == [k \in DOMAIN store \ keys |-> store[k]]

\* headers.get(name) is truthy: the header is present and not the empty string
Truthy(headers, name) == name \in DOMAIN headers /\ headers[name] # <<>>

\* (mutant) X-Real-IP is looked at before X-Forwarded-For
getClientIPRealFirst(headers) ==
  IF Truthy(headers, "x-real-ip")
  THEN headers["x-real-ip"]
  ELSE IF Truthy(headers, "x-forwarded-for")
  THEN Trim(FirstSegment(headers["x-forwarded-for"]))
  ELSE IF Truthy(headers, "cf-connecting-ip")
  THEN headers["cf-connecting-ip"]
  ELSE unknown

getClientIP(headers) ==
  IF Truthy(headers, "x-forwarded-for")
  THEN Trim(FirstSegment(headers["x-forwarded-for"]))
  ELSE IF Truthy(headers, "x-real-ip")
  THEN headers["x-real-ip"]
  ELSE IF Truthy(headers, "cf-connecting-ip")
  THEN headers["cf-connecting-ip"]
  ELSE unknown

----------------------------------------------------------------------------
(* The sliding window *)

\* (mutant) the filter keeps a timestamp that is exactly one window old
NewerOrEqual(timestamp, start) == timestamp >= start

\* timestamp => timestamp > windowStart
Newer(timestamp, start) == timestamp > start

\* (mutant) only the oldest timestamp is looked at, as by a shift()
PruneOldest(requests, start) ==
  IF requests # <<>> /\ ~Newer(requests[1], start) THEN Tail(requests) ELSE requests

Prune(requests, start) == SelectSeq(requests, LAMBDA timestamp : Newer(timestamp, start))

\* (mutant) the limit test lets one request too many through
LimitExceededLate(n, cfg) == n > cfg.maxRequests

\* data.requests.length >= config.maxRequests
LimitExceeded(n, cfg) == n >= cfg.maxRequests

\* (mutant) the burst test lets one request too many through
BurstExceededLate(n, cfg) == "burst" \in DOMAIN cfg /\ n > cfg.burst

\* recentRequests.length >= config.burst; a comparison with undefined is false
BurstExceeded(n, cfg) == "burst" \in DOMAIN cfg /\ n >= cfg.burst

\* Math.ceil(x / d) on integers
Ceil(x, d) == -((-x) \div d)

RetryAfter(oldestRequest, cfg, t) ==
  Ceil(oldestRequest + cfg.windowMs - t, MsPerSecond)

NewBucket(t) == [requests |-> <<>>, lastCleanup |-> t]

\* store.get(key) after the has/set that creates a missing bucket
Bucket(store, key, t) == IF key \in DOMAIN store THEN store[key] ELSE NewBucket(t)

checkIPLimit(store, ip, cfg, t) ==
  LET windowStart == t - cfg.windowMs
      requests == Prune(Bucket(store, ip, t).requests, windowStart)
      burstWindowStart == t - BurstWindowMs
      recentRequests == Prune(requests, burstWindowStart)
  IN  IF LimitExceeded(Len(requests), cfg)
      THEN [store |-> MapSet(store, ip, [requests |-> requests, lastCleanup |-> t]),
            result |-> [allowed |-> FALSE,
                        retryAfter |-> RetryAfter(requests[1], cfg, t),
                        remaining |-> 0,
                        limit |-> cfg.maxRequests]]
      ELSE IF BurstExceeded(Len(recentRequests), cfg)
      THEN [store |-> MapSet(store, ip, [requests |-> requests, lastCleanup |-> t]),
            result |-> [allowed |-> FALSE,
                        retryAfter |-> 10,
                        remaining |-> 0,
                        limit |-> cfg.maxRequests,
                        burstExceeded |-> TRUE]]
      ELSE [store |-> MapSet(store, ip, [requests |-> Append(requests, t), lastCleanup |-> t]),
            result |-> [allowed |-> TRUE,
                        remaining |-> cfg.maxRequests - (Len(requests) + 1),
                        limit |-> cfg.maxRequests]]

SessionKey(sessionId, identifier) == sessionId \o <<":">> \o identifier

\* (mutant) a rejected request is recorded in the bucket too
checkSessionLimitCounting(store, sessionId, identifier, cfg, t) ==
  LET key == SessionKey(sessionId, identifier)
      windowStart == t - cfg.windowMs
      requests == Prune(Bucket(store, key, t).requests, windowStart)
  IN  [store |-> MapSet(store, key, [requests |-> Append(requests, t), lastCleanup |-> t]),
       result |-> IF LimitExceeded(Len(requests), cfg)
                  THEN [allowed |-> FALSE,
                        retryAfter |-> RetryAfter(requests[1], cfg, t)]
                  ELSE [allowed |-> TRUE]]

checkSessionLimit(store, sessionId, identifier, cfg, t) ==
  LET key == SessionKey(sessionId, identifier)
      windowStart == t - cfg.windowMs
      requests == Prune(Bucket(store, key, t).requests, windowStart)
  IN  IF LimitExceeded(Len(requests), cfg)
      THEN [store |-> MapSet(store, key, [requests |-> requests, lastCleanup |-> t]),
            result |-> [allowed |-> FALSE,
                        retryAfter |-> RetryAfter(requests[1], cfg, t)]]
      ELSE [store |-> MapSet(store, key, [requests |-> Append(requests, t), lastCleanup |-> t]),
            result |-> [allowed |-> TRUE]]

\* options.sessionId && options.identifier
HasSession(options) ==
  /\ "sessionId" \in DOMAIN options /\ options.sessionId # <<>>
  /\ "identifier" \in DOMAIN options /\ options.identifier # <<>>

\* Response.json(body, {status: 429, headers}) of the IP rejection
IPLimitResponse(ipLimit, cfg, t) ==
  [status |-> 429,
   body |-> [error |-> IF "burstExceeded" \in DOMAIN ipLimit /\ ipLimit.burstExceeded
                       THEN "Too many requests in burst. Please slow down."
                       ELSE "Rate limit exceeded",
             code |-> "RATE_LIMIT_EXCEEDED",
             retryAfter |-> ipLimit.retryAfter],
   headers |-> [h \in {"Retry-After", "X-RateLimit-Limit",
                       "X-RateLimit-Remaining", "X-RateLimit-Reset"} |->
                  CASE h = "Retry-After" -> toString(ipLimit.retryAfter)
                    [] h = "X-RateLimit-Limit" -> toString(cfg.maxRequests)
                    [] h = "X-RateLimit-Remaining" -> <<"0">>
                    [] OTHER -> toString(t + ipLimit.retryAfter * MsPerSecond)]]

\* (mutant) the session rejection is reported in milliseconds in the header
SessionLimitResponseMs(sessionLimit) ==
  [status |-> 429,
   body |-> [error |-> "Analytics tracking limit exceeded for this session",
             code |-> "SESSION_LIMIT_EXCEEDED",
             retryAfter |-> sessionLimit.retryAfter],
   headers |-> [h \in {"Retry-After"} |-> toString(sessionLimit.retryAfter * MsPerSecond)]]

\* Response.json(body, {status: 429, headers}) of the session rejection
SessionLimitResponse(sessionLimit) ==
  [status |-> 429,
   body |-> [error |-> "Analytics tracking limit exceeded for this session",
             code |-> "SESSION_LIMIT_EXCEEDED",
             retryAfter |-> sessionLimit.retryAfter],
   headers |-> [h \in {"Retry-After"} |-> toString(sessionLimit.retryAfter)]]

\* (mutant) a request the session check rejects is taken out of its IP bucket
applyRateLimitRollback(headers, cfg, options, ips, sessions, t) ==
  LET ip == getClientIP(headers)
      ipCheck == checkIPLimit(ips, ip, cfg, t)
      ipLimit == ipCheck.result
      sessionCheck == checkSessionLimit(sessions, options.sessionId, options.identifier, cfg, t)
      sessionLimit == sessionCheck.result
      pruned == MapSet(ips, ip, [requests |-> Prune(Bucket(ips, ip, t).requests, t - cfg.windowMs),
                                 lastCleanup |-> t])
  IN  IF ~ipLimit.allowed
      THEN [ipStore |-> ipCheck.store, sessionStore |-> sessions,
            response |-> IPLimitResponse(ipLimit, cfg, t),
            ip |-> ip, ipLimit |-> ipLimit]
      ELSE IF HasSession(options)
      THEN [ipStore |-> IF sessionLimit.allowed THEN ipCheck.store ELSE pruned,
            sessionStore |-> sessionCheck.store,
            response |-> IF ~sessionLimit.allowed
                         THEN SessionLimitResponse(sessionLimit) ELSE null,
            ip |-> ip, ipLimit |-> ipLimit,
            key |-> SessionKey(options.sessionId, options.identifier),
            sessionLimit |-> sessionLimit]
      ELSE [ipStore |-> ipCheck.store, sessionStore |-> sessions,
            response |-> null, ip |-> ip, ipLimit |-> ipLimit]

\* applyRateLimit(req, config, options) on the stores ips and sessions at time t:
\* the stores it leaves, the response it returns and the checks it made.
applyRateLimit(headers, cfg, options, ips, sessions, t) ==
  LET ip == getClientIP(headers)
      ipCheck == checkIPLimit(ips, ip, cfg, t)
      ipLimit == ipCheck.result
      sessionCheck == checkSessionLimit(sessions, options.sessionId, options.identifier, cfg, t)
      sessionLimit == sessionCheck.result
  IN  IF ~ipLimit.allowed
      THEN [ipStore |-> ipCheck.store, sessionStore |-> sessions,
            response |-> IPLimitResponse(ipLimit, cfg, t),
            ip |-> ip, ipLimit |-> ipLimit]
      ELSE IF HasSession(options)
      THEN [ipStore |-> ipCheck.store, sessionStore |-> sessionCheck.store,
            response |-> IF ~sessionLimit.allowed
                         THEN SessionLimitResponse(sessionLimit) ELSE null,
            ip |-> ip, ipLimit |-> ipLimit,
            key |-> SessionKey(options.sessionId, options.identifier),
            sessionLimit |-> sessionLimit]
      ELSE [ipStore |-> ipCheck.store, sessionStore |-> sessions,
            response |-> null, ip |-> ip, ipLimit |-> ipLimit]

\* (mutant) the age is compared with the interval of the timer
ExpiredAfterInterval(data, t) == t - data.lastCleanup > SweepIntervalMs

\* (mutant) a bucket touched exactly maxAge ago is deleted too
ExpiredEarly(data, t) == t - data.lastCleanup >= maxAge

\* now - data.lastCleanup > maxAge
Expired(data, t) == t - data.lastCleanup > maxAge

\* the setInterval callback's two loops over one store
Cleanup(store, t) == MapDelete(store, {k \in DOMAIN store : Expired(store[k], t)})

----------------------------------------------------------------------------
(* The SQL predicates.  A uuid or text value is a string and SQL's NULL is the *)
(* value SqlNull; a boolean is one of SqlTrue, SqlFalse and SqlNull, and the   *)
(* connectives are SQL's three-valued ones.  A text[] is a sequence.           *)

SqlNull == "NULL"

SqlTrue == "true"

SqlFalse == "false"

\* a = b
SqlEq(a, b) ==
  IF a = SqlNull \/ b = SqlNull THEN SqlNull
  ELSE IF a = b THEN SqlTrue ELSE SqlFalse

\* p AND q
SqlAnd(p, q) ==
  IF p = SqlFalse \/ q = SqlFalse THEN SqlFalse
  ELSE IF p = SqlNull \/ q = SqlNull THEN SqlNull ELSE SqlTrue

\* p OR q
SqlOr(p, q) ==
  IF p = SqlTrue \/ q = SqlTrue THEN SqlTrue
  ELSE IF p = SqlNull \/ q = SqlNull THEN SqlNull ELSE SqlFalse

\* a = ANY (array): true if some element equals a, else null if a comparison
\* was null, else false
SqlAny(a, array) ==
  LET results == {SqlEq(a, array[i]) : i \in DOMAIN array}
  IN  IF SqlTrue \in results THEN SqlTrue
      ELSE IF SqlNull \in results THEN SqlNull ELSE SqlFalse

\* EXISTS (SELECT 1 FROM ... WHERE ...), given the value of the WHERE
\* condition for each row of the table: a row is selected when its condition
\* is true (not when it is false or null); EXISTS is never null
SqlExists(conditions) ==
  IF SqlTrue \in conditions THEN SqlTrue ELSE SqlFalse

\* (mutant) the membership lookup forgets the caller
has_board_role_anyone(table, caller, board_id, roles) ==
  SqlExists({ SqlAnd(SqlEq(br.board_id, board_id), SqlAny(br.role, roles)) :
              br \in table })

\* has_board_role(board_id, roles), evaluated on the table board_roles for the
\* caller auth.uid() returns
has_board_role(table, caller, board_id, roles) ==
  SqlExists({ SqlAnd(SqlAnd(SqlEq(br.board_id, board_id),
                            SqlEq(br.user_id, caller.uid)),
                     SqlAny(br.role, roles)) :
              br \in table })

\* (mutant) a public board is readable whatever its status
can_read_board_any_status(boardRows, roleRows, caller, board_id) ==
  SqlOr(SqlExists({ SqlAnd(SqlEq(b.id, board_id), SqlEq(b.visibility, "public")) :
                    b \in boardRows }),
        SqlAnd(SqlEq(caller.role, "authenticated"),
               SqlExists({ SqlAnd(SqlEq(br.board_id, board_id),
                                  SqlEq(br.user_id, caller.uid)) :
                           br \in roleRows })))

\* can_read_board(board_id), evaluated on the tables boards and board_roles
\* for the caller auth.uid() and auth.role() return
can_read_board(boardRows, roleRows, caller, board_id) ==
  SqlOr(SqlExists({ SqlAnd(SqlAnd(SqlEq(b.id, board_id),
                                  SqlEq(b.visibility, "public")),
                           SqlEq(b.status, "active")) :
                    b \in boardRows }),
        SqlAnd(SqlEq(caller.role, "authenticated"),
               SqlExists({ SqlAnd(SqlEq(br.board_id, board_id),
                                  SqlEq(br.user_id, caller.uid)) :
                           br \in roleRows })))

----------------------------------------------------------------------------
(* The create-roadmap-update edge function.  The request is the record       *)
(* [json |-> what req.json() does]: it throws (no field value) or resolves   *)
(* to a value, the JSON null or an object.  What the SDK and the             *)
(* authorization helper do for this request is the record sdk:               *)
(* client (createClientFromRequest returns), auth (what authorizeWriteAction *)
(* does) and create (RoadmapUpdate.create resolves).                         *)

\* update_type = 'progress'
progress == <<"p", "r", "o", "g", "r", "e", "s", "s">>

RequiredFields == <<"roadmap_item_id", "workspace_id", "content">>

\* (mutant) the request is turned away only when all three fields are missing
InvalidAll(payload) ==
  /\ ~Truthy(payload, "roadmap_item_id")
  /\ ~Truthy(payload, "workspace_id")
  /\ ~Truthy(payload, "content")

\* !roadmap_item_id || !workspace_id || !content
Invalid(payload) ==
  \/ ~Truthy(payload, "roadmap_item_id")
  \/ ~Truthy(payload, "workspace_id")
  \/ ~Truthy(payload, "content")

\* Response.json({error, code, required}, {status: 400})
InvalidInputResponse ==
  [status |-> 400,
   body |-> [error |-> "Missing required fields", code |-> "INVALID_INPUT",
             required |-> RequiredFields]]

\* Response.json({error: 'Internal server error'}, {status: 500})
InternalErrorResponse ==
  [status |-> 500, body |-> [error |-> "Internal server error"]]

\* the catch block: the calls made so far, the error logged, the store as it is
Caught(calls, store) ==
  [response |-> InternalErrorResponse, calls |-> calls, store |-> store,
   logged |-> TRUE]

\* the object passed to RoadmapUpdate.create, as the store returns it
NewUpdate(payload, user, store) ==
  [id |-> toString(Len(store) + 1),
   roadmap_item_id |-> payload.roadmap_item_id,
   workspace_id |-> payload.workspace_id,
   content |-> payload.content,
   author_id |-> user.id,
   update_type |-> IF "update_type" \in DOMAIN payload
                   THEN payload.update_type ELSE progress]

\* (mutant) the result of the authorization is not looked at
createRoadmapUpdateUnchecked(req, sdk, store) ==
  LET c1 == <<"createClientFromRequest">>
      c2 == Append(c1, "req.json")
      c3 == Append(c2, "authorizeWriteAction")
      c4 == Append(c3, "RoadmapUpdate.create")
  IN  IF ~sdk.client THEN Caught(c1, store)
      ELSE IF "value" \notin DOMAIN req.json THEN Caught(c2, store)
      ELSE IF req.json.value = null THEN Caught(c2, store)
      ELSE IF Invalid(req.json.value)
      THEN [response |-> InvalidInputResponse, calls |-> c2, store |-> store]
      ELSE IF "throws" \in DOMAIN sdk.auth THEN Caught(c3, store)
      ELSE IF "user" \notin DOMAIN sdk.auth THEN Caught(c3, store)
      ELSE IF ~sdk.create THEN Caught(c4, store)
      ELSE LET update == NewUpdate(req.json.value, sdk.auth.user, store)
           IN  [response |-> [status |-> 200, body |-> update], calls |-> c4,
                store |-> Append(store, update)]

\* The handler passed to Deno.serve: the response it returns, the calls it
\* made in order, and the entity store it leaves.
createRoadmapUpdate(req, sdk, store) ==
  LET c1 == <<"createClientFromRequest">>
      c2 == Append(c1, "req.json")
      c3 == Append(c2, "authorizeWriteAction")
      c4 == Append(c3, "RoadmapUpdate.create")
  IN  IF ~sdk.client THEN Caught(c1, store)
      ELSE IF "value" \notin DOMAIN req.json THEN Caught(c2, store)
      \* destructuring null throws a TypeError
      ELSE IF req.json.value = null THEN Caught(c2, store)
      ELSE IF Invalid(req.json.value)
      THEN [response |-> InvalidInputResponse, calls |-> c2, store |-> store]
      ELSE IF "throws" \in DOMAIN sdk.auth THEN Caught(c3, store)
      ELSE IF ~sdk.auth.success
      THEN [response |-> sdk.auth.error, calls |-> c3, store |-> store]
      \* auth.user is undefined: user.id throws a TypeError
      ELSE IF "user" \notin DOMAIN sdk.auth THEN Caught(c3, store)
      ELSE IF ~sdk.create THEN Caught(c4, store)
      ELSE LET update == NewUpdate(req.json.value, sdk.auth.user, store)
           IN  [response |-> [status |-> 200, body |-> update], calls |-> c4,
                store |-> Append(store, update)]

----------------------------------------------------------------------------
(* The cache-header transforms.  A Response is the record of its status,     *)
(* statusText, body and headers.  Headers keeps its names in lower case and  *)
(* set() replaces the value of the name whatever its case.                   *)

\* the byte-lowercased header name
LowerCase(name) ==
  CASE name = "Cache-Control" -> "cache-control"
    [] name = "Expires" -> "expires"
    [] name = "Vary" -> "vary"
    [] name = "Pragma" -> "pragma"
    [] OTHER -> name

\* headers.set(name, value)
HeadersSet(headers, name, value) == MapSet(headers, LowerCase(name), value)

\* Date.prototype.toUTCString: 'Thu, 01 Jan 1970 00:00:00 GMT'
MsPerDay == 86400000

DayNames ==
  << <<"S", "u", "n">>, <<"M", "o", "n">>, <<"T", "u", "e">>, <<"W", "e", "d">>,
     <<"T", "h", "u">>, <<"F", "r", "i">>, <<"S", "a", "t">> >>

MonthNames ==
  << <<"J", "a", "n">>, <<"F", "e", "b">>, <<"M", "a", "r">>, <<"A", "p", "r">>,
     <<"M", "a", "y">>, <<"J", "u", "n">>, <<"J", "u", "l">>, <<"A", "u", "g">>,
     <<"S", "e", "p">>, <<"O", "c", "t">>, <<"N", "o", "v">>, <<"D", "e", "c">> >>

\* a number below 100 in two digits
TwoDigits(n) == <<Digit(n \div 10), Digit(n % 10)>>

\* a year in at least four digits
FourDigits(n) ==
  IF n < 1000 THEN <<Digit(n \div 1000), Digit((n \div 100) % 10)>> \o TwoDigits(n % 100)
  ELSE toString(n)

\* the civil date of a day number (days since 1 January 1970)
CivilDate(days) ==
  LET z == days + 719468
      era == z \div 146097
      doe == z - era * 146097
      yoe == (doe - doe \div 1460 + doe \div 36524 - doe \div 146096) \div 365
      doy == doe - (365 * yoe + yoe \div 4 - yoe \div 100)
      mp == (5 * doy + 2) \div 153
      month == IF mp < 10 THEN mp + 3 ELSE mp - 9
  IN  [year |-> yoe + era * 400 + (IF month <= 2 THEN 1 ELSE 0),
       month |-> month,
       day |-> doy - (153 * mp + 2) \div 5 + 1]

toUTCString(ms) ==
  LET days == ms \div MsPerDay
      seconds == (ms % MsPerDay) \div MsPerSecond
      date == CivilDate(days)
  IN  DayNames[((days + 4) % 7) + 1] \o <<",", " ">> \o TwoDigits(date.day)
      \o <<" ">> \o MonthNames[date.month] \o <<" ">> \o FourDigits(date.year)
      \o <<" ">> \o TwoDigits(seconds \div 3600) \o <<":">>
      \o TwoDigits((seconds \div 60) % 60) \o <<":">> \o TwoDigits(seconds % 60)
      \o <<" ", "G", "M", "T">>

\* 'public, max-age='
PublicMaxAge ==
  <<"p", "u", "b", "l", "i", "c", ",", " ", "m", "a", "x", "-", "a", "g",
    "e", "=">>

\* ', s-maxage='
SMaxAge ==
  <<",", " ", "s", "-", "m", "a", "x", "a", "g", "e", "=">>

\* 'Accept-Encoding'
AcceptEncoding ==
  <<"A", "c", "c", "e", "p", "t", "-", "E", "n", "c", "o", "d", "i", "n",
    "g">>

\* 'no-store, no-cache, must-revalidate, private'
NoStore ==
  <<"n", "o", "-", "s", "t", "o", "r", "e", ",", " ", "n", "o", "-", "c",
    "a", "c", "h", "e", ",", " ", "m", "u", "s", "t", "-", "r", "e", "v",
    "a", "l", "i", "d", "a", "t", "e", ",", " ", "p", "r", "i", "v", "a",
    "t", "e">>

\* 'no-cache'
NoCache ==
  <<"n", "o", "-", "c", "a", "c", "h", "e">>

\* new Response(response.body, {status, statusText, headers})
NewResponse(response, headers) ==
  [status |-> response.status, statusText |-> response.statusText,
   body |-> response.body, headers |-> headers]

\* (mutant) the headers of the response passed in are not copied
addCacheHeadersFresh(response, ttlSeconds, t) ==
  LET h1 == HeadersSet(<<>>, "Cache-Control",
                       PublicMaxAge \o toString(ttlSeconds) \o SMaxAge \o toString(ttlSeconds))
      h2 == HeadersSet(h1, "Expires", toUTCString(t + ttlSeconds * MsPerSecond))
      h3 == HeadersSet(h2, "Vary", AcceptEncoding)
  IN  NewResponse(response, h3)

\* addCacheHeaders(response, ttlSeconds), Date.now() returning t
addCacheHeaders(response, ttlSeconds, t) ==
  LET h1 == HeadersSet(response.headers, "Cache-Control",
                       PublicMaxAge \o toString(ttlSeconds) \o SMaxAge \o toString(ttlSeconds))
      h2 == HeadersSet(h1, "Expires", toUTCString(t + ttlSeconds * MsPerSecond))
      h3 == HeadersSet(h2, "Vary", AcceptEncoding)
  IN  NewResponse(response, h3)

\* addNoCacheHeaders(response)
addNoCacheHeaders(response) ==
  LET h1 == HeadersSet(response.headers, "Cache-Control", NoStore)
      h2 == HeadersSet(h1, "Pragma", NoCache)
      h3 == HeadersSet(h2, "Expires", <<"0">>)
  IN  NewResponse(response, h3)

----------------------------------------------------------------------------
(* The ProtectedRoute component.  checkAuth is an async function: it runs to *)
(* its await, and goes on when the promise of isAuthenticated() has settled. *)
(* The variable checkAuth names the statement it is at; isAuth is "pending"  *)
(* until the promise settles, then "true", "false" or "throws".              *)

\* what the component returns when it is rendered with this state
Render(isChecking, isAuthenticated) ==
  IF isChecking THEN "LoadingSpinner"
  ELSE IF isAuthenticated THEN "children" ELSE "null"

\* (mutant) the result of isAuthenticated() is not tested
AfterAwaitUnchecked(outcome) ==
  IF outcome = "throws" THEN "catch" ELSE "setAuthenticated"

\* where checkAuth goes on after the await: the catch block when the promise
\* rejected, the redirect when it resolved false, setAuthenticated(true) else
AfterAwait(outcome) ==
  IF outcome = "throws" THEN "catch"
  ELSE IF outcome = "false" THEN "redirect"
  ELSE "setAuthenticated"

\* base44.auth.redirectToLogin(window.location.href), which returns or throws
RedirectCall(url, threw) == [url |-> url, threw |-> threw]

----------------------------------------------------------------------------
(* Actions *)

LogAppend(log, key, entry) ==
  MapSet(log, key, IF key \in DOMAIN log THEN Append(log[key], entry) ELSE <<entry>>)

\* what a call returned and which checks it made, without the stores
Observed(r) == [f \in DOMAIN r \ {"ipStore", "sessionStore"} |-> r[f]]

\* One call of applyRateLimit(req, config, options): the whole handler.  It is
\* synchronous, and its Date.now() calls read the same millisecond.
ApplyRateLimit(headers, options) ==
  LET r == applyRateLimit(headers, config, options, ipStore, sessionStore, now)
  IN  /\ ipStore' = r.ipStore
      /\ sessionStore' = r.sessionStore
      /\ last' = [op |-> "applyRateLimit", t |-> now, headers |-> headers,
                  options |-> options, ipBefore |-> ipStore,
                  sessionBefore |-> sessionStore, call |-> Observed(r)]
      /\ ipLog' = LogAppend(ipLog, r.ip,
                            [t |-> now, result |-> r.ipLimit, config |-> config])
      /\ sessionLog' = IF "sessionLimit" \in DOMAIN r
                       THEN LogAppend(sessionLog, r.key,
                                      [t |-> now, result |-> r.sessionLimit, config |-> config,
                                       sessionId |-> options.sessionId,
                                       identifier |-> options.identifier])
                       ELSE sessionLog
      /\ nReq' = nReq + 1
      /\ UNCHANGED <<now, config, nextSweep>>
      /\ UNCHANGED dbvars
      /\ UNCHANGED uivars

\* The setInterval callback runs at its due time or later (a timer is never
\* early), and is then due again one interval later.
Sweep ==
  /\ now >= nextSweep
  /\ ipStore' = Cleanup(ipStore, now)
  /\ sessionStore' = Cleanup(sessionStore, now)
  /\ nextSweep' = now + SweepIntervalMs
  /\ last' = [op |-> "cleanup", t |-> now, ipBefore |-> ipStore,
              sessionBefore |-> sessionStore]
  /\ UNCHANGED <<now, config, ipLog, sessionLog, nReq>>
  /\ UNCHANGED dbvars
  /\ UNCHANGED uivars

\* Time passes: Date.now() does not decrease.
Tick(t) ==
  /\ t > now
  /\ now' = t
  /\ UNCHANGED <<config, ipStore, sessionStore, nextSweep, last, ipLog, sessionLog, nReq>>
  /\ UNCHANGED dbvars
  /\ UNCHANGED uivars

\* The next request is for another endpoint, whose handler passes its own
\* preset to applyRateLimit.
Endpoint(cfg) ==
  /\ cfg # config
  /\ config' = cfg
  /\ UNCHANGED <<now, ipStore, sessionStore, nextSweep, last, ipLog, sessionLog, nReq>>
  /\ UNCHANGED dbvars
  /\ UNCHANGED uivars

\* the rate limiter's state and its histories
limiter == <<now, config, ipStore, sessionStore, nextSweep, ipLog, sessionLog, nReq>>

\* SELECT can_read_board(board_id), as the caller auth describes
CanReadBoard(board_id) ==
  /\ last' = [op |-> "can_read_board", board_id |-> board_id,
              result |-> can_read_board(boards, board_roles, auth, board_id)]
  /\ UNCHANGED limiter
  /\ UNCHANGED dbvars
  /\ UNCHANGED uivars

\* SELECT has_board_role(board_id, roles), as the caller auth describes
HasBoardRole(board_id, roles) ==
  /\ last' = [op |-> "has_board_role", board_id |-> board_id, roles |-> roles,
              result |-> has_board_role(board_roles, auth, board_id, roles)]
  /\ UNCHANGED limiter
  /\ UNCHANGED dbvars
  /\ UNCHANGED uivars

\* One call of addCacheHeaders(response, ttlSeconds)
AddCacheHeaders(response, ttlSeconds) ==
  /\ last' = [op |-> "addCacheHeaders", t |-> now, response |-> response,
              ttlSeconds |-> ttlSeconds, ipBefore |-> ipStore,
              sessionBefore |-> sessionStore,
              result |-> addCacheHeaders(response, ttlSeconds, now)]
  /\ UNCHANGED limiter
  /\ UNCHANGED dbvars
  /\ UNCHANGED uivars

\* One call of addNoCacheHeaders(response)
AddNoCacheHeaders(response) ==
  /\ last' = [op |-> "addNoCacheHeaders", t |-> now, response |-> response,
              ipBefore |-> ipStore, sessionBefore |-> sessionStore,
              result |-> addNoCacheHeaders(response)]
  /\ UNCHANGED limiter
  /\ UNCHANGED dbvars
  /\ UNCHANGED uivars

\* the state of the server side
server == <<now, config, ipStore, sessionStore, nextSweep, last, ipLog, sessionLog, nReq,
            boards, board_roles, auth, RoadmapUpdate>>

\* ProtectedRoute has been rendered for the first time: the effect runs and
\* calls checkAuth, which calls isAuthenticated() and awaits it.
RunEffect ==
  /\ checkAuth = "effect"
  /\ checkAuth' = "await"
  /\ UNCHANGED <<checking, authenticated, isAuth, redirects, href>>
  /\ UNCHANGED server

\* The promise of isAuthenticated() settles and checkAuth goes on.
Settle(outcome) ==
  /\ checkAuth = "await"
  /\ isAuth' = outcome
  /\ checkAuth' = AfterAwait(outcome)
  /\ UNCHANGED <<checking, authenticated, redirects, href>>
  /\ UNCHANGED server

\* if (!isAuth) { redirectToLogin(window.location.href); return; }: the
\* return runs the finally block; an exception of the call is caught.
RedirectToLogin(threw) ==
  /\ checkAuth = "redirect"
  /\ redirects' = Append(redirects, RedirectCall(href, threw))
  /\ checkAuth' = IF threw THEN "catch" ELSE "finally"
  /\ UNCHANGED <<checking, authenticated, isAuth, href>>
  /\ UNCHANGED server

\* setAuthenticated(true)
SetAuthenticated ==
  /\ checkAuth = "setAuthenticated"
  /\ authenticated' = TRUE
  /\ checkAuth' = "finally"
  /\ UNCHANGED <<checking, isAuth, redirects, href>>
  /\ UNCHANGED server

\* catch (error) { redirectToLogin(window.location.href); }: the finally
\* block runs whether this call returns or throws.
Catch(threw) ==
  /\ checkAuth = "catch"
  /\ redirects' = Append(redirects, RedirectCall(href, threw))
  /\ checkAuth' = "finally"
  /\ UNCHANGED <<checking, authenticated, isAuth, href>>
  /\ UNCHANGED server

\* finally { setChecking(false); }
Finally ==
  /\ checkAuth = "finally"
  /\ checking' = FALSE
  /\ checkAuth' = "done"
  /\ UNCHANGED <<authenticated, isAuth, redirects, href>>
  /\ UNCHANGED server

\* The user goes to another page of the client: window.location.href changes.
Navigate(url) ==
  /\ url # href
  /\ href' = url
  /\ UNCHANGED <<checking, authenticated, checkAuth, isAuth, redirects>>
  /\ UNCHANGED server

\* One request to the create-roadmap-update function: the whole handler.
CreateRoadmapUpdate(req, sdk) ==
  LET r == createRoadmapUpdate(req, sdk, RoadmapUpdate)
  IN  /\ RoadmapUpdate' = r.store
      /\ last' = [op |-> "createRoadmapUpdate", req |-> req, sdk |-> sdk,
                  before |-> RoadmapUpdate, calls |-> r.calls,
                  response |-> r.response]
      /\ UNCHANGED limiter
      /\ UNCHANGED <<boards, board_roles, auth>>
      /\ UNCHANGED uivars

----------------------------------------------------------------------------
(* Inputs and bounds *)

\* applyRateLimit calls in one behaviour of Spec
MaxReqs == 3

\* applyRateLimit calls in one behaviour of SpecIP: at most MaxRapid, and at
\* most PastLimit more than the config's maxRequests
MaxRapid == 11

PastLimit == 2

Min(a, b) == IF a <= b THEN a ELSE b

Budget(cfg) == Min(MaxRapid, cfg.maxRequests + PastLimit)

\* a caller's config without a burst field (the session example of the docs)
SESSION_ONLY == [windowMs |-> 300000, maxRequests |-> 1]

\* a caller's config whose burst allowance is more than one request
BURSTY == [windowMs |-> 60000, maxRequests |-> 3, burst |-> 2]

Configs == RATE_LIMITS \cup {SESSION_ONLY}

ConfigsIP == Configs \cup {BURSTY}

Header(name, value) == [h \in {name} |-> value]

NoOptions == [o \in {} |-> <<>>]

Session(sessionId, identifier) == [sessionId |-> sessionId, identifier |-> identifier]

\* The requests of Spec: two IPs, two boards, one session shared by both IPs.
sess1 == <<"s", "e", "s", "s", "1">>

board42 == <<"b", "o", "a", "r", "d", "4", "2">>

board7 == <<"b", "o", "a", "r", "d", "7">>

Callers ==
  { [headers |-> Header("x-forwarded-for", <<"a">>), options |-> NoOptions],
    [headers |-> Header("x-forwarded-for", <<"a">>), options |-> Session(sess1, board42)],
    [headers |-> Header("x-forwarded-for", <<"a">>), options |-> Session(sess1, board7)],
    [headers |-> Header("x-real-ip", <<"b">>), options |-> Session(sess1, board42)] }

\* The clock readings at which something happens, relative to the config:
\* around the burst window, around the end of the window, and past maxAge.
Instants(cfg) ==
  { 0, BurstWindowMs - 1, BurstWindowMs, cfg.windowMs - 1, cfg.windowMs,
    maxAge + BurstWindowMs }

\* The clock readings of SpecIP: also two inside the last ten seconds of the
\* window that starts at 0.
InstantsIP(cfg) == Instants(cfg) \cup {cfg.windowMs - 9000, cfg.windowMs - 5000}

\* The one caller of SpecIP
CallerIP == [headers |-> Header("x-forwarded-for", <<"a">>), options |-> NoOptions]

\* no tables, no caller, no entity: the state of the specifications that
\* exercise the rate limiter alone
Anonymous == [uid |-> SqlNull, role |-> "anon"]

EmptyDatabase ==
  /\ boards = {}
  /\ board_roles = {}
  /\ auth = Anonymous
  /\ RoadmapUpdate = <<>>

\* a ProtectedRoute that nothing has rendered: the state of the
\* specifications of the server side
HomeUrl == <<"/">>

NoBrowser ==
  /\ checking = TRUE
  /\ authenticated = FALSE
  /\ checkAuth = "unmounted"
  /\ isAuth = "pending"
  /\ redirects = <<>>
  /\ href = HomeUrl

BootLimiter(cfg) ==
  /\ now = 0
  /\ config = cfg
  /\ ipStore = <<>>
  /\ sessionStore = <<>>
  /\ nextSweep = SweepIntervalMs
  /\ last = [op |-> "load", t |-> 0]
  /\ ipLog = <<>>
  /\ sessionLog = <<>>
  /\ nReq = 0

Boot(cfg) == BootLimiter(cfg) /\ EmptyDatabase /\ NoBrowser

Init == \E cfg \in Configs : Boot(cfg)

Next ==
  \/ \E c \in Callers : nReq < MaxReqs /\ ApplyRateLimit(c.headers, c.options)
  \/ \E t \in Instants(config) : Tick(t)
  \/ Sweep

Spec == Init /\ [][Next]_vars

\* One IP, no session options, many requests: checkIPLimit in depth.
InitIP == \E cfg \in ConfigsIP : Boot(cfg)

NextIP ==
  \/ nReq < Budget(config) /\ ApplyRateLimit(CallerIP.headers, CallerIP.options)
  \/ \E t \in InstantsIP(config) : Tick(t)
  \/ Sweep

SpecIP == InitIP /\ [][NextIP]_vars

\* Every shape of request, a few calls: getClientIP and the responses.
\* A header is absent (no value) or present with one of a few values; a value
\* has no leading or trailing whitespace, as Headers normalises it.
MaxCalls == 2

ForwardedValues ==
  { <<>>, <<"a">>, <<"a", " ", ",", "b">>, <<",", "a">> }

RealIPValues == { <<>>, <<"b">> }

ConnectingIPValues == { <<>>, <<"c">> }

\* a header that is absent, or present with one of the values
Optional(name, values) == {[h \in {} |-> <<>>]} \cup {Header(name, v) : v \in values}

AllHeaders ==
  { f @@ r @@ c : f \in Optional("x-forwarded-for", ForwardedValues),
                  r \in Optional("x-real-ip", RealIPValues),
                  c \in Optional("cf-connecting-ip", ConnectingIPValues) }

AllOptions ==
  { NoOptions, [sessionId |-> sess1], [identifier |-> board42],
    [sessionId |-> <<>>, identifier |-> board42], Session(sess1, board42) }

CallersInputs ==
  {[headers |-> h, options |-> NoOptions] : h \in AllHeaders}
  \cup {[headers |-> h, options |-> o] :
          h \in {Header("x-forwarded-for", <<"a">>), Header("x-real-ip", <<"b">>)},
          o \in AllOptions}

InitInputs == \E cfg \in {ANALYTICS, SIGNUP} : Boot(cfg)

NextInputs ==
  \/ \E c \in CallersInputs : nReq < MaxCalls /\ ApplyRateLimit(c.headers, c.options)
  \/ \E t \in {BurstWindowMs - 1, BurstWindowMs} : Tick(t)

SpecInputs == InitInputs /\ [][NextInputs]_vars

\* Two IPs that share one session key, and a clock that keeps advancing until
\* the last reading of the model.
\* applyRateLimit calls in one behaviour of SpecLive
MaxLive == 4

CallersLive ==
  { [headers |-> Header("x-forwarded-for", <<"a">>), options |-> Session(sess1, board42)],
    [headers |-> Header("x-real-ip", <<"b">>), options |-> Session(sess1, board42)] }

\* the last clock reading of Instants
Horizon == maxAge + BurstWindowMs

InitLive == \E cfg \in {ANALYTICS, SIGNUP, SESSION_ONLY} : Boot(cfg)

Advance == \E t \in Instants(config) : Tick(t)

NextLive ==
  \/ \E c \in CallersLive : nReq < MaxLive /\ ApplyRateLimit(c.headers, c.options)
  \/ Advance
  \/ Sweep

\* Date.now() keeps advancing (up to the last reading of the model)
SpecLive == InitLive /\ [][NextLive]_vars /\ WF_vars(Advance)

\* The cleanup between the checks of a window: the timer fires every ten
\* minutes, and the window is as long as a bucket is retained.
\* a caller's config whose window is the retention threshold
HOURLY == [windowMs |-> maxAge, maxRequests |-> 1]

ConfigsSweep == {HOURLY, ANALYTICS, SIGNUP}

\* The clock readings of SpecSweep: when the timer is first due, around the
\* end of the window, around the retention threshold, and one interval later.
InstantsSweep(cfg) ==
  { 0, SweepIntervalMs, cfg.windowMs - 1, cfg.windowMs, maxAge, maxAge + 1,
    maxAge + SweepIntervalMs }

InitSweep == \E cfg \in ConfigsSweep : Boot(cfg)

NextSweep ==
  \/ \E c \in CallersLive : nReq < MaxReqs /\ ApplyRateLimit(c.headers, c.options)
  \/ \E t \in InstantsSweep(config) : Tick(t)
  \/ Sweep

SpecSweep == InitSweep /\ [][NextSweep]_vars

\* One IP calling endpoints of all three presets, which share its bucket.
\* applyRateLimit calls in one behaviour of SpecMixed
MaxMixed == 4

\* The clock readings of SpecMixed: the burst window, the minute of PUBLIC_API
\* and SIGNUP and two burst windows after it, the five minutes of ANALYTICS.
InstantsMixed ==
  { 0, BurstWindowMs, PUBLIC_API.windowMs, PUBLIC_API.windowMs + BurstWindowMs,
    PUBLIC_API.windowMs + 2 * BurstWindowMs, ANALYTICS.windowMs }

InitMixed == \E cfg \in RATE_LIMITS : Boot(cfg)

NextMixed ==
  \/ \E cfg \in RATE_LIMITS : Endpoint(cfg)
  \/ nReq < MaxMixed /\ ApplyRateLimit(CallerIP.headers, CallerIP.options)
  \/ \E t \in InstantsMixed : Tick(t)

SpecMixed == InitMixed /\ [][NextMixed]_vars

\* Session ids and identifiers as the client sends them: any string, one with
\* a colon in it too.  Each pair comes from an IP of its own.
CallersKeys ==
  { [headers |-> Header("x-forwarded-for", <<"a">>),
     options |-> Session(<<"a", ":", "b">>, <<"c">>)],
    [headers |-> Header("x-forwarded-for", <<"b">>),
     options |-> Session(<<"a">>, <<"b", ":", "c">>)],
    [headers |-> Header("x-forwarded-for", <<"c">>),
     options |-> Session(<<"a">>, <<"c">>)],
    [headers |-> Header("x-forwarded-for", <<"d">>),
     options |-> Session(<<"a">>, <<"c">>)] }

InitKeys == \E cfg \in {SESSION_ONLY, ANALYTICS, SIGNUP} : Boot(cfg)

NextKeys ==
  \/ \E c \in CallersKeys : nReq < MaxReqs /\ ApplyRateLimit(c.headers, c.options)
  \/ \E t \in Instants(config) : Tick(t)
  \/ Sweep

SpecKeys == InitKeys /\ [][NextKeys]_vars

\* ProtectedRoute, rendered once, while the user may go from page to page.
\* A step of checkAuth is one statement: React may render between any two.
Urls ==
  { HomeUrl, <<"/", "R", "o", "a", "d", "m", "a", "p">>,
    <<"/", "S", "u", "p", "p", "o", "r", "t">> }

Outcomes == {"true", "false", "throws"}

InitRoute ==
  /\ BootLimiter(PUBLIC_API)
  /\ EmptyDatabase
  /\ checking = TRUE
  /\ authenticated = FALSE
  /\ checkAuth = "effect"
  /\ isAuth = "pending"
  /\ redirects = <<>>
  /\ href \in Urls

\* the next statement of checkAuth
CheckAuthStep ==
  \/ RunEffect
  \/ \E outcome \in Outcomes : Settle(outcome)
  \/ \E threw \in BOOLEAN : RedirectToLogin(threw)
  \/ SetAuthenticated
  \/ \E threw \in BOOLEAN : Catch(threw)
  \/ Finally

NextRoute ==
  \/ CheckAuthStep
  \/ \E url \in Urls : Navigate(url)

\* The effect runs after the first render, the promise of isAuthenticated()
\* settles, and the statements after an await run once it has.
SpecRoute == InitRoute /\ [][NextRoute]_vars /\ WF_vars(CheckAuthStep)

\* The SQL predicates: every small database and caller, every argument.
\* rows of board_roles in one database
MaxRows == 2

\* rows of boards in one database
MaxBoards == 1

BoardIds == {"b1", "b2"}

UserIds == {"u1", "u2"}

BoardRoleNames == {"support", "admin"}

\* a table: at most max of the rows
Tables(rows, max) == {t \in SUBSET rows : Cardinality(t) <= max}

\* boards.id is the primary key
BoardTables ==
  { t \in Tables([id : BoardIds, visibility : {"public", "private"},
                  status : {"active", "archived"}], MaxBoards) :
      \A b1, b2 \in t : b1.id = b2.id => b1 = b2 }

BoardRoleTables ==
  Tables([board_id : BoardIds, user_id : UserIds, role : BoardRoleNames], MaxRows)

\* The callers: no token's claims at all, the anon key, a signed-in user (two
\* of them), and a token that names a user under another role.
AuthCallers ==
  { [uid |-> SqlNull, role |-> SqlNull], Anonymous,
    [uid |-> "u1", role |-> "authenticated"],
    [uid |-> "u2", role |-> "authenticated"],
    [uid |-> "u1", role |-> "service_role"] }

BoardIdArgs == BoardIds \cup {SqlNull}

RolesArgs ==
  { <<>>, <<"support">>, <<"admin">>, <<"support", "admin">>, <<"admin", SqlNull>> }

InitSQL ==
  /\ BootLimiter(PUBLIC_API)
  /\ boards \in BoardTables
  /\ board_roles \in BoardRoleTables
  /\ auth \in AuthCallers
  /\ RoadmapUpdate = <<>>
  /\ NoBrowser

NextSQL ==
  \/ \E b \in BoardIdArgs : CanReadBoard(b)
  \/ \E b \in BoardIdArgs, roles \in RolesArgs : HasBoardRole(b, roles)

SpecSQL == InitSQL /\ [][NextSQL]_vars

\* The cache-header transforms, applied to a handler's responses while the
\* rate limiter is in use.
\* the time to live of a public endpoint's response, in seconds: none, the
\* feedback list's two minutes and the workspace metadata's five
TtlSeconds == {0, 120, 300}

\* the Headers of a response: its content type alone, or with caching and
\* other headers set by the handler
ResponseHeaders ==
  { Header("content-type", <<"j", "s", "o", "n">>),
    Header("content-type", <<"j", "s", "o", "n">>)
      @@ Header("cache-control", NoCache) @@ Header("vary", <<"O", "r", "i", "g", "i", "n">>)
      @@ Header("x-ratelimit-limit", <<"6", "0">>),
    Header("content-type", <<"j", "s", "o", "n">>)
      @@ Header("expires", <<"0">>) @@ Header("pragma", NoCache) }

Responses ==
  { [status |-> 200, statusText |-> "OK", body |-> "data", headers |-> h] :
      h \in ResponseHeaders }
  \cup { [status |-> 404, statusText |-> "Not Found", body |-> "error", headers |-> h] :
           h \in ResponseHeaders }

InitCache == \E cfg \in {PUBLIC_API, ANALYTICS} : Boot(cfg)

NextCache ==
  \/ \E r \in Responses, ttl \in TtlSeconds : AddCacheHeaders(r, ttl)
  \/ \E r \in Responses : AddNoCacheHeaders(r)
  \/ \E c \in Callers : nReq < MaxCalls /\ ApplyRateLimit(c.headers, c.options)
  \/ \E t \in {BurstWindowMs, maxAge + BurstWindowMs} : Tick(t)
  \/ Sweep

SpecCache == InitCache /\ [][NextCache]_vars

\* The create-roadmap-update function: every shape of body, every outcome of
\* the calls it makes.
\* records in the entity store
MaxUpdates == 2

\* a body that is not JSON, the JSON null, and the objects in which each
\* required field is absent, the empty string or a value
Payloads ==
  { a @@ b @@ c @@ d :
      a \in Optional("roadmap_item_id", {<<>>, <<"r", "1">>}),
      b \in Optional("workspace_id", {<<>>, <<"w", "1">>}),
      c \in Optional("content", {<<>>, <<"h", "i">>}),
      d \in Optional("update_type", {<<"s", "t", "a", "t", "u", "s">>}) }

Requests ==
  { [json |-> [throws |-> TRUE]], [json |-> [value |-> null]] }
  \cup { [json |-> [value |-> p]] : p \in Payloads }

\* what authorizeWriteAction does: it throws, it returns a success with the
\* user, or it returns a failure with the error response it built
AuthOutcomes ==
  { [throws |-> TRUE],
    [success |-> TRUE, user |-> [id |-> <<"u", "1">>]],
    [success |-> TRUE],
    [success |-> FALSE,
     error |-> [status |-> 401, body |-> [error |-> "Unauthorized"]]],
    [success |-> FALSE,
     error |-> [status |-> 403, body |-> [error |-> "Forbidden"]]] }

Sdks == [client : BOOLEAN, auth : AuthOutcomes, create : BOOLEAN]

InitHandler ==
  /\ BootLimiter(PUBLIC_API)
  /\ EmptyDatabase
  /\ NoBrowser

NextHandler ==
  \E req \in Requests, sdk \in Sdks :
    Len(RoadmapUpdate) < MaxUpdates /\ CreateRoadmapUpdate(req, sdk)

SpecHandler == InitHandler /\ [][NextHandler]_vars

----------------------------------------------------------------------------
(* Reading the histories *)

\* the times of the checks of one key's log that were accepted, in order
AcceptedTimes(entries) ==
  LET acc == SelectSeq(entries, LAMBDA e : e.result.allowed)
  IN  [i \in DOMAIN acc |-> acc[i].t]

\* how many of the times lie in the interval (lo, hi]
CountIn(times, lo, hi) ==
  Cardinality({i \in DOMAIN times : lo < times[i] /\ times[i] <= hi})

\* No interval (e - len, e] holds more than cap accepted requests of one key.
\* An interval that holds the most ends at an accepted request, so these are
\* the intervals to look at.
RateHolds(log, len, cap) ==
  \A k \in DOMAIN log :
    LET times == AcceptedTimes(log[k])
    IN  \A i \in DOMAIN times : CountIn(times, times[i] - len, times[i]) <= cap

IsWindowRejection(result) ==
  ~result.allowed /\ "burstExceeded" \notin DOMAIN result

IsBurstRejection(result) ==
  ~result.allowed /\ "burstExceeded" \in DOMAIN result

----------------------------------------------------------------------------
(* C1: for every key of either store, the number of accepted requests in any *)
(* rolling interval of length windowMs (the interval (e - windowMs, e]) is   *)
(* at most maxRequests.                                                      *)
C1_WindowLimit ==
  /\ RateHolds(ipLog, config.windowMs, config.maxRequests)
  /\ RateHolds(sessionLog, config.windowMs, config.maxRequests)

\* both stores have turned a request away at a full window
C1_Witness ==
  /\ \E k \in DOMAIN ipLog : \E i \in DOMAIN ipLog[k] :
       IsWindowRejection(ipLog[k][i].result)
  /\ \E k \in DOMAIN sessionLog : \E i \in DOMAIN sessionLog[k] :
       ~sessionLog[k][i].result.allowed

(* C2 as stated: for every key of either store, the number of accepted       *)
(* requests in any rolling 10-second interval is at most config.burst.       *)
C2_BurstLimitBothStores ==
  "burst" \in DOMAIN config =>
    /\ RateHolds(ipLog, BurstWindowMs, config.burst)
    /\ RateHolds(sessionLog, BurstWindowMs, config.burst)

(* C2, amended: for every IP key, the number of accepted requests in any     *)
(* rolling 10-second interval is at most config.burst.                       *)
C2_BurstLimitIP ==
  "burst" \in DOMAIN config => RateHolds(ipLog, BurstWindowMs, config.burst)

\* an IP was turned away by the burst check with its allowance used up
C2_Witness ==
  \E k \in DOMAIN ipLog : \E i \in DOMAIN ipLog[k] :
    /\ IsBurstRejection(ipLog[k][i].result)
    /\ CountIn(AcceptedTimes(ipLog[k]), ipLog[k][i].t - BurstWindowMs, ipLog[k][i].t)
         = config.burst

(* C3 as stated: when a check of a key is rejected at time t with            *)
(* retryAfter = r and the next check of that key is made at t + r*1000,      *)
(* that check is accepted.                                                   *)
RetryHolds(log) ==
  \A k \in DOMAIN log : \A i \in 1..(Len(log[k]) - 1) :
    ( /\ ~log[k][i].result.allowed
      /\ log[k][i + 1].t = log[k][i].t + log[k][i].result.retryAfter * MsPerSecond )
    => log[k][i + 1].result.allowed

C3_RetryAccepted == RetryHolds(ipLog) /\ RetryHolds(sessionLog)

----------------------------------------------------------------------------
(* The reference procedure of checkIPLimit, written from its description *)

\* the least integer r with r * d >= x, for x > 0
LeastMultiple(x, d) ==
  CHOOSE r \in 1..(x \div d + 1) : r * d >= x /\ (r - 1) * d < x

Reference(requests, cfg, t) ==
  LET kept == SelectSeq(requests, LAMBDA ts : ~(ts <= t - cfg.windowMs))
      recent == Cardinality({i \in DOMAIN kept : kept[i] > t - 10000})
  IN  IF Len(kept) >= cfg.maxRequests
      THEN [allowed |-> FALSE, burst |-> FALSE, requests |-> kept,
            retryAfter |-> LeastMultiple(kept[1] + cfg.windowMs - t, 1000)]
      ELSE IF "burst" \in DOMAIN cfg /\ recent >= cfg.burst
      THEN [allowed |-> FALSE, burst |-> TRUE, requests |-> kept, retryAfter |-> 10]
      ELSE [allowed |-> TRUE, requests |-> Append(kept, t),
            remaining |-> cfg.maxRequests - (Len(kept) + 1)]

(* C4: the IP check of every applyRateLimit call has the outcome of the      *)
(* reference procedure on the bucket it found (accept or reject, a positive  *)
(* retryAfter, the burst flag, the remaining quota, the bucket it leaves);   *)
(* and with burst < maxRequests, when the first burst + 1 requests of an IP  *)
(* come within 10 seconds, the first `burst` are accepted and the next is a  *)
(* burst rejection with retryAfter 10.                                       *)
C4_Reference ==
  /\ last.op = "applyRateLimit" =>
       LET ip == last.call.ip
           got == last.call.ipLimit
           before == IF ip \in DOMAIN last.ipBefore
                     THEN last.ipBefore[ip].requests ELSE <<>>
           ref == Reference(before, config, last.t)
       IN  /\ got.allowed = ref.allowed
           /\ got.limit = config.maxRequests
           /\ ipStore[ip].requests = ref.requests
           /\ got.allowed => got.remaining = ref.remaining
           /\ ~got.allowed =>
                /\ got.retryAfter = ref.retryAfter
                /\ got.retryAfter > 0
                /\ got.remaining = 0
                /\ IsBurstRejection(got) <=> ref.burst
  /\ \A k \in DOMAIN ipLog :
       ( /\ "burst" \in DOMAIN config
         /\ config.burst < config.maxRequests
         /\ Len(ipLog[k]) > config.burst
         /\ ipLog[k][config.burst + 1].t - ipLog[k][1].t < 10000 )
       => /\ \A i \in 1..config.burst : ipLog[k][i].result.allowed
          /\ IsBurstRejection(ipLog[k][config.burst + 1].result)
          /\ ipLog[k][config.burst + 1].result.retryAfter = 10

\* the docs' example: ten rapid requests under PUBLIC_API, the eleventh
\* turned away by the burst check
C4_Witness ==
  /\ config = PUBLIC_API
  /\ last.op = "applyRateLimit"
  /\ IsBurstRejection(last.call.ipLimit)
  /\ Len(ipLog[last.call.ip]) = 11
  /\ \A i \in 1..10 : ipLog[last.call.ip][i].result.allowed

----------------------------------------------------------------------------
(* The last call of applyRateLimit *)

Called == last.op = "applyRateLimit"

\* the checks of a key made before the last call (own: the call checked the key)
Prior(log, key, own) ==
  IF key \notin DOMAIN log THEN <<>>
  ELSE IF own THEN SubSeq(log[key], 1, Len(log[key]) - 1)
  ELSE log[key]

RanSessionCheck == "sessionLimit" \in DOMAIN last.call

Rejected(code) ==
  /\ last.call.response # null
  /\ last.call.response.status = 429
  /\ last.call.response.body.code = code

(* C5 as stated: under {windowMs: 300000, maxRequests: 1} with sessionId     *)
(* 'sess1' and identifier 'board42', the first call returns null, and a call *)
(* less than 5 minutes after an accepted one with the same session key is    *)
(* answered 429 with code SESSION_LIMIT_EXCEEDED.                            *)
C5_SessionExample ==
  (Called /\ config = SESSION_ONLY /\ last.options = Session(sess1, board42)) =>
    LET prior == Prior(sessionLog, SessionKey(sess1, board42), RanSessionCheck)
    IN  /\ nReq = 1 => last.call.response = null
        /\ (\E i \in DOMAIN prior :
              prior[i].result.allowed /\ last.t - prior[i].t < config.windowMs)
           => Rejected("SESSION_LIMIT_EXCEEDED")

(* C6 as stated: under ANALYTICS a call with session options is accepted     *)
(* when its session+board combination has had no accepted request in the     *)
(* last 5 minutes and its IP has had fewer than 60 in the last minute.       *)
C6_AnalyticsTier ==
  (Called /\ config = ANALYTICS /\ HasSession(last.options)) =>
    LET key == SessionKey(last.options.sessionId, last.options.identifier)
        ofKey == AcceptedTimes(Prior(sessionLog, key, RanSessionCheck))
        ofIP == AcceptedTimes(Prior(ipLog, last.call.ip, TRUE))
    IN  ( /\ CountIn(ofKey, last.t - ANALYTICS.windowMs, last.t) < ANALYTICS.maxRequests
          /\ CountIn(ofIP, last.t - PUBLIC_API.windowMs, last.t) < PUBLIC_API.maxRequests )
        => last.call.response = null

----------------------------------------------------------------------------
(* Reading a response *)

DigitValue(c) ==
  CASE c = "0" -> 0 [] c = "1" -> 1 [] c = "2" -> 2 [] c = "3" -> 3 [] c = "4" -> 4
    [] c = "5" -> 5 [] c = "6" -> 6 [] c = "7" -> 7 [] c = "8" -> 8 [] c = "9" -> 9

\* the number a decimal string denotes
RECURSIVE Decimal(_)
Decimal(s) ==
  IF s = <<>> THEN 0
  ELSE 10 * Decimal(SubSeq(s, 1, Len(s) - 1)) + DigitValue(s[Len(s)])

\* both session options are supplied
Supplied(options) ==
  /\ "sessionId" \in DOMAIN options /\ Len(options.sessionId) > 0
  /\ "identifier" \in DOMAIN options /\ Len(options.identifier) > 0

(* C7: applyRateLimit returns null exactly when the IP check accepts and     *)
(* either the session options are not both supplied or the session check     *)
(* accepts; an IP rejection is a 429 RATE_LIMIT_EXCEEDED with                *)
(* X-RateLimit-Limit = maxRequests, X-RateLimit-Remaining = 0 and            *)
(* Retry-After = the body's retryAfter, and the session check is not run; a  *)
(* session rejection is a 429 SESSION_LIMIT_EXCEEDED with Retry-After = the  *)
(* body's retryAfter.                                                        *)
C7_Responses ==
  Called =>
    LET c == last.call
        r == c.response
    IN  /\ r = null <=>
             (c.ipLimit.allowed /\ (~Supplied(last.options) \/ c.sessionLimit.allowed))
        /\ RanSessionCheck <=> (c.ipLimit.allowed /\ Supplied(last.options))
        /\ ~c.ipLimit.allowed =>
             /\ Rejected("RATE_LIMIT_EXCEEDED")
             /\ r.body.retryAfter = c.ipLimit.retryAfter
             /\ Decimal(r.headers["Retry-After"]) = r.body.retryAfter
             /\ Decimal(r.headers["X-RateLimit-Limit"]) = config.maxRequests
             /\ Decimal(r.headers["X-RateLimit-Remaining"]) = 0
             /\ sessionStore = last.sessionBefore
        /\ (RanSessionCheck /\ ~c.sessionLimit.allowed) =>
             /\ Rejected("SESSION_LIMIT_EXCEEDED")
             /\ r.body.retryAfter = c.sessionLimit.retryAfter
             /\ Decimal(r.headers["Retry-After"]) = r.body.retryAfter

\* a call whose IP check accepted and whose session check rejected
C7_Witness ==
  /\ Called
  /\ last.call.ipLimit.allowed
  /\ Rejected("SESSION_LIMIT_EXCEEDED")

----------------------------------------------------------------------------
(* getClientIP, from its description *)

\* ip is the first comma-separated segment of value, without the whitespace
\* at its two ends
IsTrimmedFirstSegment(ip, value) ==
  \E n \in 0..Len(value) :
    /\ n = Len(value) \/ value[n + 1] = ","
    /\ \A i \in 1..n : value[i] # ","
    /\ \E a \in 0..n : \E b \in 0..(n - a) :
         /\ \A i \in 1..a : value[i] \in Whitespace
         /\ \A i \in (n - b + 1)..n : value[i] \in Whitespace
         /\ ip = SubSeq(value, a + 1, n - b)
         /\ ip = <<>> \/ (ip[1] \notin Whitespace /\ ip[Len(ip)] \notin Whitespace)

\* ip is resolved from the headers by precedence, Has(name) saying which
\* headers count
Resolved(ip, headers, Has(_)) ==
  IF Has("x-forwarded-for") THEN IsTrimmedFirstSegment(ip, headers["x-forwarded-for"])
  ELSE IF Has("x-real-ip") THEN ip = headers["x-real-ip"]
  ELSE IF Has("cf-connecting-ip") THEN ip = headers["cf-connecting-ip"]
  ELSE ip = unknown

(* C8 as stated: the IP key is the trimmed first segment of X-Forwarded-For  *)
(* if that header is present, else X-Real-IP if present, else                *)
(* CF-Connecting-IP if present, else 'unknown'.                              *)
C8_PrecedenceByPresence ==
  Called =>
    Resolved(last.call.ip, last.headers, LAMBDA name : name \in DOMAIN last.headers)

(* C8, amended: the same precedence over the headers that are present with a *)
(* non-empty value; a header present with an empty value is passed over.     *)
C8_PrecedenceByValue ==
  Called =>
    Resolved(last.call.ip, last.headers,
             LAMBDA name : name \in DOMAIN last.headers /\ Len(last.headers[name]) > 0)

\* X-Forwarded-For is present and empty, and X-Real-IP gave the key
C8_Witness ==
  /\ Called
  /\ "x-forwarded-for" \in DOMAIN last.headers
  /\ last.headers["x-forwarded-for"] = <<>>
  /\ "x-real-ip" \in DOMAIN last.headers
  /\ last.call.ip = last.headers["x-real-ip"]
  /\ last.call.ip # <<>>

\* X-Forwarded-For has a value whose first segment is empty or whitespace
Malformed(headers) ==
  /\ "x-forwarded-for" \in DOMAIN headers
  /\ headers["x-forwarded-for"] # <<>>
  /\ IsTrimmedFirstSegment(<<>>, headers["x-forwarded-for"])

(* C9 as stated: a request whose X-Forwarded-For is malformed is checked in  *)
(* the 'unknown' bucket.                                                     *)
C9_MalformedToUnknown ==
  (Called /\ Malformed(last.headers)) =>
    /\ last.call.ip = unknown
    /\ unknown \in DOMAIN ipStore

----------------------------------------------------------------------------
(* The cleanup *)

LastTouch(log, key) == log[key][Len(log[key])].t

\* after a cleanup at time t the store holds the buckets checked in the last
\* hour, as they were, and no other
Swept(store, before, log, t) ==
  /\ DOMAIN store = {k \in DOMAIN log : t - LastTouch(log, k) <= 3600000}
  /\ \A k \in DOMAIN store : k \in DOMAIN before /\ store[k] = before[k]

(* C10: after a sweep at time T a bucket of either store is present iff a    *)
(* check touched it within the last hour (T - last touch <= 3600000 ms).     *)
C10_Sweep ==
  last.op = "cleanup" =>
    /\ Swept(ipStore, last.ipBefore, ipLog, last.t)
    /\ Swept(sessionStore, last.sessionBefore, sessionLog, last.t)

\* a sweep that deleted a bucket of each store and kept a bucket of each
C10_Witness ==
  /\ last.op = "cleanup"
  /\ DOMAIN ipStore # {} /\ DOMAIN last.ipBefore \ DOMAIN ipStore # {}
  /\ DOMAIN sessionStore # {} /\ DOMAIN last.sessionBefore \ DOMAIN sessionStore # {}

----------------------------------------------------------------------------
(* C11: can_read_board(board_id) is true iff the board exists with          *)
(* visibility 'public' and status 'active', or the caller's auth role is     *)
(* 'authenticated' and the caller has a board_roles row for the board; so it *)
(* is true for a public and active board whoever calls, and false for a      *)
(* private board when the caller has no row for it.                          *)
IsPublicActive(board_id) ==
  \E b \in boards : b.id = board_id /\ b.visibility = "public" /\ b.status = "active"

IsPrivate(board_id) ==
  \E b \in boards : b.id = board_id /\ b.visibility = "private"

RowsOfCaller(board_id) ==
  {br \in board_roles : br.board_id = board_id /\ br.user_id = auth.uid}

C11_CanReadBoard ==
  last.op = "can_read_board" =>
    /\ last.result = SqlTrue <=>
         \/ IsPublicActive(last.board_id)
         \/ auth.role = "authenticated" /\ RowsOfCaller(last.board_id) # {}
    /\ IsPublicActive(last.board_id) => last.result = SqlTrue
    /\ IsPrivate(last.board_id) /\ RowsOfCaller(last.board_id) = {}
         => last.result # SqlTrue

\* an anonymous caller reads a public, active board that has members
C11_Witness ==
  /\ last.op = "can_read_board"
  /\ auth = Anonymous
  /\ IsPublicActive(last.board_id)
  /\ \E br \in board_roles : br.board_id = last.board_id
  /\ last.result = SqlTrue

(* C12: has_board_role(board_id, roles) is true iff board_roles has a row    *)
(* for that board whose user_id is the caller and whose role is an element   *)
(* of roles; so it is false for an empty roles array and for a caller with   *)
(* no row for the board.                                                     *)
Elements(array) == {array[i] : i \in DOMAIN array}

C12_HasBoardRole ==
  last.op = "has_board_role" =>
    /\ last.result = SqlTrue <=>
         \E br \in RowsOfCaller(last.board_id) : br.role \in Elements(last.roles)
    /\ last.roles = <<>> => last.result # SqlTrue
    /\ RowsOfCaller(last.board_id) = {} => last.result # SqlTrue

\* the caller holds a role on the board, and another user holds the role asked for
C12_Witness ==
  /\ last.op = "has_board_role"
  /\ \E br \in RowsOfCaller(last.board_id) : br.role \notin Elements(last.roles)
  /\ \E br \in board_roles :
       /\ br.board_id = last.board_id
       /\ br.user_id # auth.uid
       /\ br.role \in Elements(last.roles)
  /\ last.result = SqlFalse

----------------------------------------------------------------------------
(* The create-roadmap-update function *)

HandlerRan == last.op = "createRoadmapUpdate"

\* the request's body was read as a JSON value other than null
GotPayload ==
  /\ last.sdk.client
  /\ "value" \in DOMAIN last.req.json
  /\ last.req.json.value # null

\* the required fields missing from the payload: absent or the empty string
Missing(payload) ==
  {RequiredFields[i] : i \in {j \in DOMAIN RequiredFields :
                                 ~Truthy(payload, RequiredFields[j])}}

Made(call) == \E i \in DOMAIN last.calls : last.calls[i] = call

Times(call) == Cardinality({i \in DOMAIN last.calls : last.calls[i] = call})

IsInvalidInput(response) ==
  /\ response.status = 400
  /\ "code" \in DOMAIN response.body
  /\ response.body.code = "INVALID_INPUT"

(* C13 as stated: a request missing any of the three fields gets a 400 with  *)
(* code INVALID_INPUT whose body lists the fields missing from that request, *)
(* and neither the authorization nor the create is performed.                *)
C13_ListsMissingFields ==
  HandlerRan /\ GotPayload /\ Missing(last.req.json.value) # {} =>
    /\ IsInvalidInput(last.response)
    /\ Elements(last.response.body.required) = Missing(last.req.json.value)
    /\ ~Made("authorizeWriteAction")
    /\ ~Made("RoadmapUpdate.create")
    /\ RoadmapUpdate = last.before

(* C13, amended: a request whose body is read as a JSON value other than     *)
(* null and misses any of the three fields (absent or empty) gets a 400 with *)
(* code INVALID_INPUT whose body lists all three required fields, whichever  *)
(* are missing; a request whose body cannot be read, or is null, gets the    *)
(* 500 response; in both cases neither the authorization nor the create is   *)
(* performed.                                                                *)
C13_ListsRequiredFields ==
  HandlerRan =>
    /\ GotPayload /\ Missing(last.req.json.value) # {} =>
         /\ last.response = InvalidInputResponse
         /\ last.response.body.required = RequiredFields
    /\ ~GotPayload => last.response = InternalErrorResponse
    /\ ~GotPayload \/ Missing(last.req.json.value) # {} =>
         /\ ~Made("authorizeWriteAction")
         /\ ~Made("RoadmapUpdate.create")
         /\ RoadmapUpdate = last.before

\* a request with only content missing, which the helper would have let
\* through, is turned away after an update was created
C13_Witness ==
  /\ HandlerRan /\ GotPayload
  /\ Missing(last.req.json.value) = {"content"}
  /\ "success" \in DOMAIN last.sdk.auth /\ last.sdk.auth.success
  /\ last.before # <<>>
  /\ last.response.status = 400

(* C14: RoadmapUpdate.create is invoked at most once per request, and only   *)
(* after the validation passed and authorizeWriteAction returned success;    *)
(* when the authorization fails its error response is returned and nothing   *)
(* is created; when a step throws the response is the 500 with 'Internal     *)
(* server error'; every request ends in exactly one of the 200, the 400, the *)
(* authorization error and the 500.                                          *)
AuthFailed ==
  /\ Made("authorizeWriteAction")
  /\ "success" \in DOMAIN last.sdk.auth
  /\ ~last.sdk.auth.success

AuthSucceeded ==
  /\ Made("authorizeWriteAction")
  /\ "success" \in DOMAIN last.sdk.auth
  /\ last.sdk.auth.success

\* the call that was made last threw
Threw ==
  LET call == last.calls[Len(last.calls)]
  IN  \/ call = "createClientFromRequest" /\ ~last.sdk.client
      \/ call = "req.json" /\ ~GotPayload
      \/ call = "authorizeWriteAction" /\ "throws" \in DOMAIN last.sdk.auth
      \/ call = "authorizeWriteAction" /\ AuthSucceeded /\ "user" \notin DOMAIN last.sdk.auth
      \/ call = "RoadmapUpdate.create" /\ ~last.sdk.create

\* how the request ended: the kinds of response it is
Endings ==
  { k \in {"200", "400", "authorization error", "500"} :
      \/ k = "200" /\ last.response.status = 200 /\ RoadmapUpdate = Append(last.before, last.response.body)
      \/ k = "400" /\ last.response = InvalidInputResponse
      \/ k = "authorization error" /\ AuthFailed /\ last.response = last.sdk.auth.error
      \/ k = "500" /\ last.response = InternalErrorResponse }

C14_CreateOnce ==
  HandlerRan =>
    /\ Times("RoadmapUpdate.create") <= 1
    /\ Len(RoadmapUpdate) <= Len(last.before) + Times("RoadmapUpdate.create")
    /\ Made("RoadmapUpdate.create") =>
         /\ GotPayload /\ Missing(last.req.json.value) = {}
         /\ AuthSucceeded
         /\ last.calls[Len(last.calls) - 1] = "authorizeWriteAction"
    /\ AuthFailed =>
         /\ last.response = last.sdk.auth.error
         /\ ~Made("RoadmapUpdate.create")
         /\ RoadmapUpdate = last.before
    /\ Threw => last.response = InternalErrorResponse /\ RoadmapUpdate = last.before
    /\ Cardinality(Endings) = 1

\* a valid request of an authorized user whose create throws, after another
\* request created an update
C14_Witness ==
  /\ HandlerRan
  /\ Made("RoadmapUpdate.create")
  /\ ~last.sdk.create
  /\ last.before # <<>>
  /\ last.response.status = 500

----------------------------------------------------------------------------
(* C15: addCacheHeaders and addNoCacheHeaders return a response with the     *)
(* status, status text and body of the one passed in and with its headers,   *)
(* except that Cache-Control, Expires and Vary (addCacheHeaders, with        *)
(* max-age = s-maxage = ttlSeconds) or Cache-Control, Pragma and Expires     *)
(* (addNoCacheHeaders, with no-store) are overwritten; the rate limiter's    *)
(* stores are as they were.                                                  *)

\* the response has the status, status text and body of the one passed in,
\* and its headers but for the names given, which it has too
SameBut(names) ==
  /\ last.result.status = last.response.status
  /\ last.result.statusText = last.response.statusText
  /\ last.result.body = last.response.body
  /\ DOMAIN last.result.headers = DOMAIN last.response.headers \cup names
  /\ \A h \in DOMAIN last.response.headers \ names :
       last.result.headers[h] = last.response.headers[h]

\* the comma-separated directives of a Cache-Control value, each trimmed
RECURSIVE Directives(_)
Directives(value) ==
  LET first == FirstSegment(value)
  IN  IF Len(first) = Len(value) THEN {Trim(first)}
      ELSE {Trim(first)} \cup Directives(SubSeq(value, Len(first) + 2, Len(value)))

\* the directive name=seconds of the value has this number of seconds
HasSeconds(value, name, seconds) ==
  \E d \in Directives(value) :
    /\ Len(d) > Len(name)
    /\ SubSeq(d, 1, Len(name)) = name
    /\ Decimal(SubSeq(d, Len(name) + 1, Len(d))) = seconds

StoresUntouched ==
  ipStore = last.ipBefore /\ sessionStore = last.sessionBefore

----------------------------------------------------------------------------
(* Reverting to active *)

\* a check of the IP now would be accepted
AdmitsIP(ip) == checkIPLimit(ipStore, ip, config, now).result.allowed

\* a check of the session key now would be accepted
AdmitsSession(options) ==
  checkSessionLimit(sessionStore, options.sessionId, options.identifier,
                    config, now).result.allowed

\* the bucket a rejected check leaves holds the timestamps of the bucket it
\* found that are within the window, and nothing else
OnlyPruned(store, before, key, t) ==
  /\ store[key].lastCleanup = t
  /\ store[key].requests =
       IF key \in DOMAIN before
       THEN SelectSeq(before[key].requests, LAMBDA ts : ts > t - config.windowMs)
       ELSE <<>>

RejectedNeverAppends ==
  Called =>
    /\ ~last.call.ipLimit.allowed =>
         OnlyPruned(ipStore, last.ipBefore, last.call.ip, last.t)
    /\ (RanSessionCheck /\ ~last.call.sessionLimit.allowed) =>
         OnlyPruned(sessionStore, last.sessionBefore, last.call.key, last.t)

\* a check made a full window or more after every accepted check of its key
\* is accepted, whatever was rejected in between
AcceptedAfterWindow(log) ==
  \A k \in DOMAIN log : \A i \in DOMAIN log[k] :
    (\A j \in 1..(i - 1) :
       log[k][j].result.allowed => log[k][i].t - log[k][j].t >= config.windowMs)
    => log[k][i].result.allowed

(* C16: a rejected check never appends a timestamp to its bucket (it prunes  *)
(* and sets the last-touch time), a check made a full window after the last  *)
(* accepted one is accepted whatever was rejected in between, and so, as     *)
(* time keeps advancing, a key that is rejected now is eventually accepted   *)
(* again.  The clock of the model stops at Horizon, so the keys looked at    *)
(* are those rejected before it.                                             *)
C16_RevertsToActive ==
  /\ [](RejectedNeverAppends /\ AcceptedAfterWindow(ipLog) /\ AcceptedAfterWindow(sessionLog))
  /\ \A c \in CallersLive :
       /\ (~AdmitsIP(getClientIP(c.headers)) /\ now < Horizon)
            ~> AdmitsIP(getClientIP(c.headers))
       /\ (~AdmitsSession(c.options) /\ now < Horizon) ~> AdmitsSession(c.options)

\* an IP was accepted, then rejected at two later times, then accepted again
C16_Witness ==
  \E k \in DOMAIN ipLog : \E i, j, l \in DOMAIN ipLog[k] :
    /\ i < j /\ j < l
    /\ ipLog[k][1].result.allowed
    /\ ~ipLog[k][i].result.allowed
    /\ ~ipLog[k][j].result.allowed
    /\ ipLog[k][i].t < ipLog[k][j].t
    /\ ipLog[k][l].result.allowed

----------------------------------------------------------------------------
(* C17: right after a check of a key at time t under config c, accepted or   *)
(* rejected, every timestamp ts of the key's bucket has t - c.windowMs < ts  *)
(* and ts <= t, the bucket's last-touch time is t, and the timestamps are in *)
(* non-decreasing order.                                                     *)
BucketInvariant(bucket, cfg, t) ==
  /\ \A i \in DOMAIN bucket.requests :
       t - cfg.windowMs < bucket.requests[i] /\ bucket.requests[i] <= t
  /\ bucket.lastCleanup = t
  /\ \A i, j \in DOMAIN bucket.requests :
       i <= j => bucket.requests[i] <= bucket.requests[j]

C17_BucketInvariant ==
  Called =>
    /\ last.call.ip \in DOMAIN ipStore
    /\ BucketInvariant(ipStore[last.call.ip], config, last.t)
    /\ RanSessionCheck =>
         /\ last.call.key \in DOMAIN sessionStore
         /\ BucketInvariant(sessionStore[last.call.key], config, last.t)

\* a check that pruned its bucket and left two different timestamps in it
C17_Witness ==
  /\ Called
  /\ last.call.ip \in DOMAIN last.ipBefore
  /\ \E i \in DOMAIN last.ipBefore[last.call.ip].requests :
       last.ipBefore[last.call.ip].requests[i] <= last.t - config.windowMs
  /\ Len(ipStore[last.call.ip].requests) >= 2
  /\ ipStore[last.call.ip].requests[1] < ipStore[last.call.ip].requests[2]

----------------------------------------------------------------------------
(* The run with no sweep: the checks of one key, made again at their times   *)
(* on a store that nothing else touches.                                     *)

RECURSIVE ReplayIP(_, _, _, _)
ReplayIP(entries, ip, cfg, store) ==
  IF entries = <<>> THEN <<>>
  ELSE LET r == checkIPLimit(store, ip, cfg, Head(entries).t)
       IN  <<r.result>> \o ReplayIP(Tail(entries), ip, cfg, r.store)

\* a sessionId and an identifier that make the key
KeyParts(key) ==
  CHOOSE p \in { [sessionId |-> SubSeq(key, 1, n - 1),
                  identifier |-> SubSeq(key, n + 1, Len(key))] :
                 n \in {m \in DOMAIN key : key[m] = ":"} } : TRUE

RECURSIVE ReplaySession(_, _, _, _)
ReplaySession(entries, key, cfg, store) ==
  IF entries = <<>> THEN <<>>
  ELSE LET r == checkSessionLimit(store, KeyParts(key).sessionId,
                                  KeyParts(key).identifier, cfg, Head(entries).t)
       IN  <<r.result>> \o ReplaySession(Tail(entries), key, cfg, r.store)

Results(entries) == [i \in DOMAIN entries |-> entries[i].result]

(* C18: under a config whose windowMs is at most one hour, whenever the      *)
(* sweep fires between the checks, every check of every key returns what it  *)
(* returns in the run with no sweep: the same accept or reject, the same     *)
(* retryAfter.                                                               *)
C18_SweepTransparent ==
  config.windowMs <= maxAge =>
    /\ \A k \in DOMAIN ipLog : Results(ipLog[k]) = ReplayIP(ipLog[k], k, config, <<>>)
    /\ \A k \in DOMAIN sessionLog :
         Results(sessionLog[k]) = ReplaySession(sessionLog[k], k, config, <<>>)

\* a bucket of each store was deleted by a sweep, and its key was then checked
C18_Witness ==
  /\ Called
  /\ Len(ipLog[last.call.ip]) > 1
  /\ last.call.ip \notin DOMAIN last.ipBefore
  /\ RanSessionCheck
  /\ Len(sessionLog[last.call.key]) > 1
  /\ last.call.key \notin DOMAIN last.sessionBefore

----------------------------------------------------------------------------
(* C19: a request answered SESSION_LIMIT_EXCEEDED has been appended to its   *)
(* IP's bucket by the IP check, which ran first, and stays there: the next   *)
(* IP check counts it in the window and in the burst; a request the IP check *)
(* rejects leaves the session store as it was.                               *)

\* the timestamps of the bucket that a check at time t counts since start
Counted(store, key, start) ==
  Cardinality({i \in DOMAIN store[key].requests : store[key].requests[i] > start})

CountedBefore(store, key, start) ==
  IF key \in DOMAIN store THEN Counted(store, key, start) ELSE 0

C19_IPRecordedFirst ==
  Called =>
    /\ Rejected("SESSION_LIMIT_EXCEEDED") =>
         LET ip == last.call.ip
             requests == ipStore[ip].requests
         IN  /\ last.call.ipLimit.allowed
             /\ requests # <<>> /\ requests[Len(requests)] = last.t
             /\ Counted(ipStore, ip, last.t - config.windowMs)
                  = CountedBefore(last.ipBefore, ip, last.t - config.windowMs) + 1
             /\ Counted(ipStore, ip, last.t - BurstWindowMs)
                  = CountedBefore(last.ipBefore, ip, last.t - BurstWindowMs) + 1
             /\ ipLog[ip][Len(ipLog[ip])].result.allowed
    /\ Rejected("RATE_LIMIT_EXCEEDED") =>
         /\ ~RanSessionCheck
         /\ sessionStore = last.sessionBefore

\* a request is answered SESSION_LIMIT_EXCEEDED, and it is the request that
\* uses up its IP's quota
C19_Witness ==
  /\ Called
  /\ Rejected("SESSION_LIMIT_EXCEEDED")
  /\ ipStore[last.call.ip].requests = <<last.t>>
  /\ ~AdmitsIP(last.call.ip)

----------------------------------------------------------------------------
(* C20: when endpoints of different presets are called from one IP they      *)
(* share the IP's bucket, and still, for every preset c, the number of       *)
(* requests of the IP accepted under c in any rolling interval of            *)
(* c.windowMs is at most c.maxRequests.                                      *)

\* the checks of the log that were made under the preset
Under(entries, cfg) == SelectSeq(entries, LAMBDA e : e.config = cfg)

C20_PresetLimits ==
  \A c \in RATE_LIMITS : \A k \in DOMAIN ipLog :
    LET times == AcceptedTimes(Under(ipLog[k], c))
    IN  \A i \in DOMAIN times :
          CountIn(times, times[i] - c.windowMs, times[i]) <= c.maxRequests

\* a check under a one-minute preset pruned the timestamp of a request that
\* ANALYTICS accepted less than five minutes ago, and ANALYTICS then turned
\* the IP away
C20_Witness ==
  /\ Called
  /\ config = ANALYTICS
  /\ ~last.call.ipLimit.allowed
  /\ \E i \in DOMAIN ipLog[last.call.ip] :
       LET e == ipLog[last.call.ip][i]
       IN  /\ e.config = ANALYTICS
           /\ e.result.allowed
           /\ last.t - e.t < ANALYTICS.windowMs
           /\ \A j \in DOMAIN last.ipBefore[last.call.ip].requests :
                last.ipBefore[last.call.ip].requests[j] # e.t

----------------------------------------------------------------------------
(* C21 as stated: two session checks read and write the same bucket only if  *)
(* they have the same sessionId and the same identifier, and so a request is *)
(* turned away by the session check only when a request of its own pair was  *)
(* accepted within the window.                                               *)
SamePair(e1, e2) ==
  e1.sessionId = e2.sessionId /\ e1.identifier = e2.identifier

C21_SessionIsolation ==
  /\ \A k \in DOMAIN sessionLog : \A i, j \in DOMAIN sessionLog[k] :
       SamePair(sessionLog[k][i], sessionLog[k][j])
  /\ \A k \in DOMAIN sessionLog : \A i \in DOMAIN sessionLog[k] :
       ~sessionLog[k][i].result.allowed =>
         \E j \in 1..(i - 1) :
           /\ SamePair(sessionLog[k][j], sessionLog[k][i])
           /\ sessionLog[k][j].result.allowed
           /\ sessionLog[k][i].t - sessionLog[k][j].t < config.windowMs

----------------------------------------------------------------------------
(* C22: ProtectedRoute renders its children only after isAuthenticated()     *)
(* resolved true; while the check is pending it renders the loading spinner; *)
(* when the check resolves false or throws, redirectToLogin is called with   *)
(* the URL current at the call and the children are never rendered; and the  *)
(* checking flag eventually becomes false.                                   *)
Rendered == Render(checking, authenticated)

Pending == checkAuth \in {"effect", "await"}

Refused == isAuth \in {"false", "throws"}

RouteInvariant ==
  /\ Rendered = "children" => isAuth = "true"
  /\ Pending => isAuth = "pending" /\ Rendered = "LoadingSpinner"
  /\ Refused => Rendered # "children"
  /\ Refused /\ checkAuth \in {"finally", "done"} => redirects # <<>>
  /\ isAuth = "true" => redirects = <<>>

RedirectsToCurrentUrl ==
  redirects' # redirects =>
    /\ Refused
    /\ \E threw \in BOOLEAN : redirects' = Append(redirects, [url |-> href, threw |-> threw])

====
